---- MODULE Spec2Model ----
(***************************************************************************)
(* A model of bpnetlite/bpnet.py: the BPNet constructor, forward, predict  *)
(* and training_step.  Tensors are represented by their shapes and, for    *)
(* batches of examples, by the sequence of their rows; an optional Python  *)
(* value is the empty tuple (None) or a one-element tuple.                 *)
(***************************************************************************)
EXTENDS Integers, Sequences, FiniteSets, TLC

VARIABLES
    args,          \* the arguments BPNet(...) was called with
    self,          \* the fields and layers __init__ set (<<>> before construction)
    fwd,           \* the last call of forward: its inputs and what it produced
    X,             \* predict: the examples, one entry per row
    batch_size,    \* predict: the batch_size argument
    grad_enabled,  \* torch's gradient-tracking mode of the running thread
    fwd_calls,     \* the calls of self(...) made by predict, in order
    y,             \* what predict returned (<<>> before it returns)
    pc,            \* training: position of the trainer / training_step
    has_valid,     \* training: X_valid was supplied (is not None)
    landscape,     \* training: which validation-loss curve the run follows
    global_step,   \* training: optimizer steps taken so far (self.global_step)
    params,        \* training: version of the model parameters
    grads_pending, \* training: gradients computed by backward and not yet applied
    training,      \* training: self.training (train / eval mode)
    valid_loss,    \* training: valid_loss of the running training_step
    wandb_log,     \* training: the records passed to wandb.log, in order
    saved          \* training: the snapshots written by torch.save, in order

fvars == <<args, self, fwd>>
pvars == <<X, batch_size, grad_enabled, fwd_calls, y>>
tvars == <<pc, has_valid, landscape, global_step, params, grads_pending,
           training, valid_loss, wandb_log, saved>>
vars == <<fvars, pvars, tvars>>

None == <<>>
Some(v) == <<v>>

(***************************************************************************)
(* Bounds of the model.                                                    *)
(***************************************************************************)
MaxFilters == 2
MaxLayers == 2
MaxOutputs == 2
MaxTracks == 2
MaxTrim == 3
MaxB == 2
MaxL == 12
MaxTrimW == 38
MaxLW == 80

(***************************************************************************)
(* Layer constants of __init__ and forward.                                *)
(***************************************************************************)
IconvKernel == 21
IconvPadding == 10
RconvKernel == 3
FconvKernel == 75
FconvPadding == 37
CountFlank == 37

(***************************************************************************)
(* Python and torch primitives used by the code.                           *)
(***************************************************************************)
\* a or b on an optional integer: None and 0 are both falsy.
PyOr(a, b) == IF a = None THEN b ELSE IF a[1] = 0 THEN b ELSE a[1]

\* One bound of a slice over a dimension of length len: a negative bound
\* counts from the end, and both are clamped to 0..len.
PyBound(len, i) ==
    IF i < 0 THEN (IF i + len < 0 THEN 0 ELSE i + len)
    ELSE (IF i > len THEN len ELSE i)

\* t[a:b] over a dimension of length len: positions lo..hi-1 (empty if lo >= hi).
PySlice(len, a, b) == [lo |-> PyBound(len, a), hi |-> PyBound(len, b)]

PySliceLen(len, a, b) ==
    LET s == PySlice(len, a, b) IN IF s.hi > s.lo THEN s.hi - s.lo ELSE 0

\* Output length of torch.nn.Conv1d (stride 1) on an input of length len.
ConvOutLen(len, kernel, padding, dilation) ==
    len + 2 * padding - dilation * (kernel - 1)

\* torch.add broadcasts a dimension of size 1; other sizes must agree.
AddOk(a, b) == a = b \/ a = 1 \/ b = 1
AddLen(a, b) == IF a > b THEN a ELSE b

(***************************************************************************)
(* BPNet.__init__                                                          *)
(***************************************************************************)
\* Variant: the padding of a block whose dilation was numbered from 0.
RconvPaddingHalved(i) == 2 ^ (i - 1)

\* padding=2**i, for i in range(1, n_layers+1)
RconvPadding(i) == 2 ^ i

RconvDilation(i) == 2 ^ i

\* Variant: the count layer always built with the control feature.
NCountControlAlways(n_control_tracks) == 1

\* n_count_control = 1 if n_control_tracks > 0 else 0
NCountControl(n_control_tracks) == IF n_control_tracks > 0 THEN 1 ELSE 0

BPNetInit(a) ==
    [ n_filters        |-> a.n_filters,
      n_layers         |-> a.n_layers,
      n_outputs        |-> a.n_outputs,
      n_control_tracks |-> a.n_control_tracks,
      trimming         |-> PyOr(a.trimming, 2 ^ a.n_layers),
      iconv  |-> [in_channels |-> 4, out_channels |-> a.n_filters,
                  kernel_size |-> IconvKernel, padding |-> IconvPadding,
                  dilation |-> 1],
      rconvs |-> [i \in 1..a.n_layers |->
                    [in_channels |-> a.n_filters, out_channels |-> a.n_filters,
                     kernel_size |-> RconvKernel, padding |-> RconvPadding(i),
                     dilation |-> RconvDilation(i)]],
      fconv  |-> [in_channels |-> a.n_filters + a.n_control_tracks,
                  out_channels |-> a.n_outputs,
                  kernel_size |-> FconvKernel, padding |-> FconvPadding,
                  dilation |-> 1],
      linear |-> [in_features |-> a.n_filters + NCountControl(a.n_control_tracks),
                  out_features |-> 1] ]

(***************************************************************************)
(* BPNet.forward                                                           *)
(***************************************************************************)
\* Applying a Conv1d layer to a tensor of shape (B, channels, len): the
\* output length, or an error when the channels do not match the layer or
\* the padded input is shorter than the dilated kernel.
Conv(layer, channels, len) ==
    LET out == ConvOutLen(len, layer.kernel_size, layer.padding, layer.dilation)
    IN  [ok |-> channels = layer.in_channels /\ out >= 1, len |-> out]

\* The residual loop of forward from block i on: the trace of
\* (input length, convolution length, sum length) per block.
RECURSIVE Residual(_, _, _, _)
Residual(m, i, len, trace) ==
    IF i > m.n_layers THEN [ok |-> TRUE, len |-> len, trace |-> trace]
    ELSE LET c == Conv(m.rconvs[i], m.n_filters, len)
         IN  IF ~c.ok \/ ~AddOk(len, c.len)
             THEN [ok |-> FALSE, len |-> len, trace |-> trace]
             ELSE Residual(m, i + 1, AddLen(len, c.len),
                           Append(trace, <<len, c.len, AddLen(len, c.len)>>))

Failed(at) ==
    [status |-> "error", at |-> at, y_profile |-> <<>>, y_counts |-> <<>>,
     iconv_len |-> 0, blocks |-> <<>>, fconv_len |-> 0,
     x_window |-> <<>>, ctl_window |-> <<>>]

\* forward(X, X_ctl) for X of shape (B, 4, L) and X_ctl None or of shape
\* (B, X_ctl[1], L).
Forward(m, B, L, X_ctl) ==
    LET start == m.trimming
        end   == L - m.trimming
        i0    == Conv(m.iconv, 4, L)
        r     == Residual(m, 1, i0.len, <<>>)
        wctl  == IF X_ctl = None THEN m.n_filters ELSE m.n_filters + X_ctl[1]
        f     == Conv(m.fconv, wctl, r.len)
        xw    == PySlice(r.len, start - CountFlank, end + CountFlank)
        cw    == IF X_ctl = None THEN <<>>
                 ELSE Some(PySlice(L, start - CountFlank, end + CountFlank))
        feats == IF X_ctl = None THEN m.n_filters ELSE m.n_filters + 1
    IN  IF ~i0.ok THEN Failed("iconv")
        ELSE IF ~r.ok THEN Failed("rconvs")
        ELSE IF ~f.ok THEN Failed("fconv")
        ELSE IF feats # m.linear.in_features THEN Failed("linear")
        ELSE [status |-> "ok", at |-> "return",
              y_profile |-> <<B, m.fconv.out_channels,
                              PySliceLen(f.len, start, end)>>,
              y_counts  |-> <<B, 1>>,
              iconv_len |-> i0.len, blocks |-> r.trace, fconv_len |-> f.len,
              x_window |-> Some(xw), ctl_window |-> cw]

(***************************************************************************)
(* BPNet.predict                                                           *)
(***************************************************************************)
\* numpy.arange(0, n, step) for n >= 0 and step >= 1.
Arange(n, step) == [k \in 1..((n + step - 1) \div step) |-> (k - 1) * step]

Starts(n, bs) == Arange(n, bs)

\* Variant: ends taken as the last index of a chunk, not one past it.
EndsInclusive(starts, bs) == [k \in DOMAIN starts |-> starts[k] + bs - 1]

\* ends = starts + batch_size
Ends(starts, bs) == [k \in DOMAIN starts |-> starts[k] + bs]

\* rows[a:b] of a tensor given by its rows (0-based, b exclusive).
SliceRows(rows, a, b) ==
    LET s == PySlice(Len(rows), a, b) IN SubSeq(rows, s.lo + 1, s.hi)

\* The tower treats the examples of a batch independently: row i of each
\* output depends on row i of the input alone.
ProfileRow(x) == <<"profile", x>>
CountRow(x) == <<"count", x>>

\* One call self(X_batch, X_ctl_batch), made in gradient mode grad.
Call(rows, a, b, grad) ==
    LET s == PySlice(Len(rows), a, b)
        batch == SliceRows(rows, a, b)
    IN  [lo |-> s.lo, hi |-> s.hi, grad |-> grad,
         y_profiles_ |-> [i \in DOMAIN batch |-> ProfileRow(batch[i])],
         y_counts_   |-> [i \in DOMAIN batch |-> CountRow(batch[i])]]

\* The loop of predict over zip(starts, ends) from position k on.
RECURSIVE PredictLoop(_, _, _, _, _, _)
PredictLoop(rows, starts, ends, k, grad, calls) ==
    IF k > Len(starts) THEN calls
    ELSE PredictLoop(rows, starts, ends, k + 1, grad,
                     Append(calls, Call(rows, starts[k], ends[k], grad)))

PredictCalls(rows, bs, grad) ==
    LET starts == Starts(Len(rows), bs)
    IN  PredictLoop(rows, starts, Ends(starts, bs), 1, grad, <<>>)

\* torch.cat of the per-chunk outputs along the batch axis.
RECURSIVE Cat(_)
Cat(chunks) ==
    IF chunks = <<>> THEN <<>> ELSE Head(chunks) \o Cat(Tail(chunks))

PredictResult(calls) ==
    [y_profiles |-> Cat([k \in DOMAIN calls |-> calls[k].y_profiles_]),
     y_counts   |-> Cat([k \in DOMAIN calls |-> calls[k].y_counts_])]

(***************************************************************************)
(* BPNet.training_step, driven once per batch by the trainer that owns the *)
(* optimizer of configure_optimizers and the batches of train_dataloader.  *)
(***************************************************************************)
\* Bounds of the training scenario.
BatchesPerEpoch == 10
MaxEpochs == 2
NumLandscapes == 4
ValidRows == 3

\* predict's default batch_size.
DefaultBatchSize == 64

TotalSteps == MaxEpochs * BatchesPerEpoch

\* self.current_epoch while batch number step of the run is processed.
CurrentEpoch(step) == step \div BatchesPerEpoch

\* The validation set handed to the constructor, by rows.
XValid == [i \in 1..ValidRows |-> i]

\* valid_loss is computed from the predictions on the fixed validation set,
\* so it is a function of the parameters; the run follows one of these
\* curves: improving at every step, constant, worsening, or oscillating.
ValidLoss(l, p) ==
    CASE l = 1 -> TotalSteps - p
      [] l = 2 -> 5
      [] l = 3 -> p
      [] OTHER -> (p * l) % 3

\* Lines 282-297: unpack the batch, forward, the two losses, loss.backward().
\* No optimizer step follows inside training_step.
TrainForwardBackward ==
    /\ pc = "batch"
    /\ global_step < TotalSteps
    /\ grads_pending' = TRUE
    /\ pc' = "backward_done"
    /\ UNCHANGED <<has_valid, landscape, global_step, params, training,
                   valid_loss, wandb_log, saved, fvars, pvars>>

\* Lines 302-321 with a validation set: self.eval(), predict over X_valid in
\* the caller's gradient mode, the measures and valid_loss.
ValidationRun ==
    /\ pc = "backward_done"
    /\ has_valid
    /\ training' = FALSE
    /\ X' = XValid
    /\ batch_size' = DefaultBatchSize
    /\ fwd_calls' = PredictCalls(XValid, DefaultBatchSize, grad_enabled)
    /\ y' = Some(PredictResult(fwd_calls'))
    /\ valid_loss' = Some(ValidLoss(landscape, params))
    /\ pc' = "validated"
    /\ UNCHANGED <<has_valid, landscape, global_step, params, grads_pending,
                   wandb_log, saved, grad_enabled, fvars>>

\* Lines 302-305 without a validation set: predict is called all the same,
\* on X_valid = None, and X.shape raises.
ValidationCrash ==
    /\ pc = "backward_done"
    /\ ~has_valid
    /\ training' = FALSE
    /\ pc' = "crashed"
    /\ UNCHANGED <<has_valid, landscape, global_step, params, grads_pending,
                   valid_loss, wandb_log, saved, fvars, pvars>>

\* Lines 323-344: one record to wandb.log, then return loss.  The block that
\* compares valid_loss with best_loss and calls torch.save is commented out.
LogAndReturn ==
    /\ pc = "validated"
    /\ wandb_log' = Append(wandb_log,
                           [epoch |-> CurrentEpoch(global_step) + 1,
                            iteration |-> global_step,
                            valid_loss |-> valid_loss[1],
                            params |-> params])
    /\ saved' = saved
    /\ valid_loss' = None
    /\ pc' = "returned"
    /\ UNCHANGED <<has_valid, landscape, global_step, params, grads_pending,
                   training, fvars, pvars>>

\* After training_step returned, the trainer applies the gradients with the
\* optimizer of configure_optimizers and moves to the next batch.
OptimizerStep ==
    /\ pc = "returned"
    /\ params' = params + 1
    /\ grads_pending' = FALSE
    /\ global_step' = global_step + 1
    /\ pc' = IF global_step + 1 = TotalSteps THEN "done" ELSE "batch"
    /\ UNCHANGED <<has_valid, landscape, training, valid_loss, wandb_log,
                   saved, fvars, pvars>>

(***************************************************************************)
(* Operations on a model and on predict, as actions.                       *)
(***************************************************************************)
Construct ==
    /\ args # None
    /\ self = None
    /\ self' = Some(BPNetInit(args[1]))
    /\ UNCHANGED <<args, fwd, pvars, tvars>>

\* forward is a function of the model and its inputs: one call per run.
ForwardCall(Bs, Ls, Ctls) ==
    /\ self # None
    /\ fwd = None
    /\ \E B \in Bs, L \in Ls, X_ctl \in Ctls :
          fwd' = Some([B |-> B, L |-> L, X_ctl |-> X_ctl,
                       out |-> Forward(self[1], B, L, X_ctl)])
    /\ UNCHANGED <<args, self, pvars, tvars>>

ForwardShape ==
    ForwardCall(1..MaxB, 1..MaxL, {None} \cup {Some(w) : w \in 0..MaxTracks})

ForwardWindow == ForwardCall({1}, 1..MaxLW, {None, Some(1)})

Predict ==
    /\ X # <<>>
    /\ y = None
    /\ fwd_calls' = PredictCalls(X, batch_size, grad_enabled)
    /\ y' = Some(PredictResult(fwd_calls'))
    /\ UNCHANGED <<X, batch_size, grad_enabled, fvars, tvars>>

(***************************************************************************)
(* Specifications.                                                         *)
(***************************************************************************)
MaxN == 4
MaxVal == 2
MaxBatch == 5

ArgsShape ==
    [n_filters : 1..MaxFilters, n_layers : 0..MaxLayers,
     n_outputs : 1..MaxOutputs, n_control_tracks : 0..MaxTracks,
     trimming : {None} \cup {Some(t) : t \in 0..MaxTrim}]

ArgsWindow ==
    [n_filters : {1}, n_layers : 0..MaxLayers, n_outputs : {1},
     n_control_tracks : 0..1,
     trimming : {None} \cup {Some(t) : t \in 0..MaxTrimW}]

Examples == UNION {[1..n -> 1..MaxVal] : n \in 1..MaxN}

NoModel == args = None /\ self = None /\ fwd = None

NoPredict ==
    /\ X = <<>> /\ batch_size = DefaultBatchSize /\ grad_enabled = FALSE
    /\ fwd_calls = <<>> /\ y = None

NoTraining ==
    /\ pc = "off" /\ has_valid = FALSE /\ landscape = 0 /\ global_step = 0
    /\ params = 0 /\ grads_pending = FALSE /\ training = TRUE
    /\ valid_loss = None /\ wandb_log = <<>> /\ saved = <<>>

InitForward ==
    /\ args \in {Some(a) : a \in ArgsShape}
    /\ self = None /\ fwd = None
    /\ NoPredict /\ NoTraining

InitWindow ==
    /\ args \in {Some(a) : a \in ArgsWindow}
    /\ self = None /\ fwd = None
    /\ NoPredict /\ NoTraining

InitPredict ==
    /\ X \in Examples
    /\ batch_size \in 1..MaxBatch
    /\ grad_enabled \in BOOLEAN
    /\ fwd_calls = <<>> /\ y = None
    /\ NoModel /\ NoTraining

\* training_step needs gradient tracking for loss.backward(), and a module
\* is in train mode after construction.
InitTrain ==
    /\ pc = "batch"
    /\ has_valid \in BOOLEAN
    /\ landscape \in 1..NumLandscapes
    /\ global_step = 0 /\ params = 0 /\ grads_pending = FALSE
    /\ training = TRUE /\ valid_loss = None
    /\ wandb_log = <<>> /\ saved = <<>>
    /\ X = <<>> /\ batch_size = DefaultBatchSize /\ grad_enabled = TRUE
    /\ fwd_calls = <<>> /\ y = None
    /\ NoModel

NextForward == Construct \/ ForwardShape
NextWindow == Construct \/ ForwardWindow
NextPredict == Predict
NextTrain ==
    \/ TrainForwardBackward
    \/ ValidationRun
    \/ ValidationCrash
    \/ LogAndReturn
    \/ OptimizerStep

SpecForward == InitForward /\ [][NextForward]_vars
SpecWindow == InitWindow /\ [][NextWindow]_vars
SpecPredict == InitPredict /\ [][NextPredict]_vars
SpecTrain == InitTrain /\ [][NextTrain]_vars

Init == InitForward \/ InitWindow \/ InitPredict \/ InitTrain
Next == NextForward \/ NextWindow \/ NextPredict \/ NextTrain
Spec == Init /\ [][Next]_vars

(***************************************************************************)
(* Properties.                                                             *)
(***************************************************************************)
Min(a, b) == IF a < b THEN a ELSE b

\* Width of the control tensor of a call, 0 when it is absent.
Width(X_ctl) == IF X_ctl = None THEN 0 ELSE X_ctl[1]

\* The trimming the documentation gives a model: the argument when one was
\* passed, 2^n_layers when none was.
DocTrimming(a) == IF a.trimming = None THEN 2 ^ a.n_layers ELSE a.trimming[1]

\* The control tensor of the call is the one the model was built for.
CtlMatches(a, X_ctl) ==
    IF a.n_control_tracks = 0 THEN X_ctl = None
    ELSE X_ctl = Some(a.n_control_tracks)

\* C1: for n_layers >= 0, n_outputs >= 1, a trimming argument t >= 0 or none,
\* and an input (B, 4, L) with L - 2*trimming > 0 and a matching control
\* tensor, forward returns a profile (B, n_outputs, L - 2*trimming) and a
\* count (B, 1), where trimming is t when t was passed and 2^n_layers only
\* when none was passed.
C1_ForwardShape ==
    (/\ fwd # None
     /\ fwd[1].L - 2 * DocTrimming(args[1]) > 0
     /\ CtlMatches(args[1], fwd[1].X_ctl))
    => /\ fwd[1].out.status = "ok"
       /\ fwd[1].out.y_profile =
             <<fwd[1].B, args[1].n_outputs,
               fwd[1].L - 2 * DocTrimming(args[1])>>
       /\ fwd[1].out.y_counts = <<fwd[1].B, 1>>

\* C2: predict on N >= 1 examples with batch_size >= 1 calls forward once per
\* contiguous chunk [k*batch_size, min((k+1)*batch_size, N)), in increasing
\* k, and concatenates the outputs in that order: output row i is the
\* prediction for input row i, and both outputs have exactly N rows.
C2_PredictOrder ==
    y # None =>
        LET N == Len(X)
            K == (N + batch_size - 1) \div batch_size
        IN  /\ Len(fwd_calls) = K
            /\ \A k \in 1..K :
                  /\ fwd_calls[k].lo = (k - 1) * batch_size
                  /\ fwd_calls[k].hi = Min(k * batch_size, N)
                  /\ Len(fwd_calls[k].y_profiles_) =
                        fwd_calls[k].hi - fwd_calls[k].lo
                  /\ Len(fwd_calls[k].y_counts_) =
                        fwd_calls[k].hi - fwd_calls[k].lo
            /\ Len(y[1].y_profiles) = N
            /\ Len(y[1].y_counts) = N
            /\ \A i \in 1..N :
                  /\ y[1].y_profiles[i] = ProfileRow(X[i])
                  /\ y[1].y_counts[i] = CountRow(X[i])

C2_Witness ==
    /\ y # None
    /\ Len(X) = 3
    /\ batch_size = 2
    /\ X[1] # X[2]
    /\ Len(fwd_calls) = 2

\* C3: every forward call predict makes runs with gradient tracking
\* disabled, whatever the caller's gradient mode was.
C3_PredictNoGrad ==
    \A k \in DOMAIN fwd_calls : fwd_calls[k].grad = FALSE

\* Scenario parameters of the training claims: the validation cadence and
\* the early-stopping threshold.
ValidationIter == 5
EarlyStopping == 2

\* The iterations at which a validation tick was recorded.
TickIterations == {wandb_log[i].iteration : i \in DOMAIN wandb_log}

\* C4: a validation tick follows a training batch if and only if a
\* validation set was supplied and iteration mod validation_iter = 0 (with 10
\* batches per epoch, validation_iter 5 and 2 epochs: exactly the ticks at
\* iterations 0, 5, 10 and 15), and no validation is attempted when no
\* validation set was supplied.
C4_ValidationCadence ==
    /\ \A i \in TickIterations : i % ValidationIter = 0
    /\ pc = "done" =>
          /\ TickIterations =
                IF has_valid
                THEN {i \in 0..(TotalSteps - 1) : i % ValidationIter = 0}
                ELSE {}
          /\ Len(wandb_log) = Cardinality(TickIterations)
    /\ ~has_valid => pc \notin {"validated", "crashed"}

\* The bookkeeping the claims describe, replayed over the recorded ticks:
\* best is the least validation loss so far with the parameters that
\* achieved it (None before the first tick), count the number of ticks since
\* it last improved.
RECURSIVE Replay(_, _, _)
Replay(log, i, acc) ==
    IF i > Len(log) THEN acc
    ELSE IF acc.best = None \/ log[i].valid_loss < acc.best[1].valid_loss
         THEN Replay(log, i + 1, [best |-> Some(log[i]), count |-> 0])
         ELSE Replay(log, i + 1, [best |-> acc.best, count |-> acc.count + 1])

Bookkeeping(log) == Replay(log, 1, [best |-> None, count |-> 0])

\* C5: at every validation tick whose loss is below the best so far the
\* model is persisted as the 'best' artifact, otherwise the artifact is
\* left alone; so after any sequence of ticks the 'best' artifact is the
\* model state of the tick with the minimum validation loss.
C5_BestArtifact ==
    (wandb_log # <<>> /\ pc \in {"returned", "batch", "done"}) =>
        /\ saved # <<>>
        /\ saved[Len(saved)] = Bookkeeping(wandb_log).best[1].params

\* C6: once the validation loss has failed to improve on EarlyStopping
\* consecutive ticks, training consumes no further batch.
C6_EarlyStop ==
    Bookkeeping(wandb_log).count >= EarlyStopping
        => pc \notin {"backward_done", "validated"}

\* C8: a validation run starts only after the preceding batch's gradient
\* computation and parameter update have both completed: none runs between
\* a batch's backward pass and its optimizer step.
C8_ValidationBetweenSteps ==
    pc = "validated" => ~grads_pending

\* C7 as stated: forward fails exactly when the width of the control
\* tensor passed (0 when absent) differs from n_control_tracks.
C7_FailsIffWidthDiffers ==
    fwd # None =>
        (fwd[1].out.status = "error"
            <=> Width(fwd[1].X_ctl) # args[1].n_control_tracks)

\* C7, amended: forward fails exactly when the width of the control tensor
\* passed (0 when absent) differs from n_control_tracks, or a control tensor
\* is passed to a model built with n_control_tracks = 0, even one of width 0;
\* the error is raised inside forward by the profile convolution or the
\* count layer and nothing is returned, and with X_ctl absent the control
\* branches are skipped.
C7_FailsIffCtlUnexpected ==
    fwd # None =>
        LET c == fwd[1].X_ctl
            n == args[1].n_control_tracks
            o == fwd[1].out
        IN  /\ o.status = "error" <=> (Width(c) # n \/ (c # None /\ n = 0))
            /\ o.status = "error" =>
                  /\ o.at \in {"fconv", "linear"}
                  /\ o.y_profile = <<>> /\ o.y_counts = <<>>
            /\ (o.status = "ok" /\ c = None) => o.ctl_window = None
            /\ (o.status = "ok" /\ c # None) => o.ctl_window # None

C7_Witness ==
    /\ fwd # None
    /\ args[1].n_control_tracks = 0
    /\ fwd[1].X_ctl = Some(0)
    /\ fwd[1].out.status = "error"
    /\ fwd[1].out.at = "linear"

\* The positions lo..hi-1 of a slice, as a set.
Positions(w) == {p \in w.lo .. (w.hi - 1) : TRUE}

\* The output window widened by 37 positions on each side, within 0..L-1.
WidenedWindow(t, L) ==
    {p \in (t - CountFlank) .. (L - t + CountFlank - 1) : p >= 0 /\ p < L}

\* C9: for trimming >= 0 and L - 2*trimming > 0 the count head averages the
\* feature map, and sums the control signal when there is one, over exactly
\* the positions trimming-37 .. L-trimming+37-1 that exist, the same window
\* for both; also when trimming < 37.
C9_CountWindow ==
    (/\ fwd # None
     /\ fwd[1].out.status = "ok"
     /\ fwd[1].L - 2 * self[1].trimming > 0)
    => /\ Positions(fwd[1].out.x_window[1]) =
             WidenedWindow(self[1].trimming, fwd[1].L)
       /\ fwd[1].X_ctl # None =>
             fwd[1].out.ctl_window = fwd[1].out.x_window

\* C10: for n_layers >= 0 and L >= 1 the feature map has length L after the
\* initial convolution (kernel 21, padding 10) and after each residual
\* block; block i uses kernel 3, dilation 2^i and padding 2^i, so its
\* convolution output is as long as its input and the residual sum adds
\* tensors of equal length; the profile convolution (kernel 75, padding 37)
\* keeps length L before the crop.  forward never fails in the tower.
C10_LengthPreserved ==
    fwd # None =>
        LET o == fwd[1].out
            L == fwd[1].L
            m == self[1]
        IN  /\ o.at \notin {"iconv", "rconvs"}
            /\ \A i \in 1..m.n_layers :
                  /\ m.rconvs[i].kernel_size = 3
                  /\ m.rconvs[i].dilation = 2 ^ i
                  /\ m.rconvs[i].padding = 2 ^ i
            /\ o.status = "ok" =>
                  /\ o.iconv_len = L
                  /\ Len(o.blocks) = args[1].n_layers
                  /\ \A i \in DOMAIN o.blocks : o.blocks[i] = <<L, L, L>>
                  /\ o.fconv_len = L

C10_Witness ==
    /\ fwd # None
    /\ fwd[1].out.status = "ok"
    /\ args[1].n_layers = 2
    /\ fwd[1].L = 1
    /\ fwd[1].out.blocks = <<<<1, 1, 1>>, <<1, 1, 1>>>>

====
